---- MODULE Spec2Model ----
(***************************************************************************)
(* A model of astor's code generator (src/astor/code_gen.py): to_source,   *)
(* set_precedence, the Delimit context manager and the SourceGenerator     *)
(* handlers for expressions and a few statements.                          *)
(*                                                                         *)
(* Text is modelled at the level of lexical atoms: a fragment (one entry   *)
(* of generator.result) is a sequence of atoms, an atom being a string     *)
(* that contains no newline, or the single newline character "\n".  The   *)
(* empty string '' is the empty sequence.                                  *)
(*                                                                         *)
(* A tree node is a record [k, op, id, n, c, x]: its kind, operator, name, *)
(* numeric value, children (in visiting order) and, where the handler      *)
(* needs them, the role of every child.  A node is identified by its path  *)
(* (the child indices from the root of `tree`); the _pp attribute that     *)
(* set_precedence stores on a node is the entry of pp_attr at that path.   *)
(*                                                                         *)
(* The model takes the Python 3 branches of the source (visit_Num's `new`  *)
(* is true, _p_op is unused).  A float is an integral value, an infinity  *)
(* or a NaN.                                                               *)
(* op_util's Precedence table and operator symbols are not part of         *)
(* code_gen.py; they are modelled from their uses in it.                   *)
(***************************************************************************)
EXTENDS Integers, Sequences, FiniteSets, TLC

VARIABLES
    tree,                  \* the caller's syntax tree (never changed)
    add_line_information,  \* to_source's configuration flag
    pp_attr,               \* node._pp of every node that has the attribute
    pc,                    \* "idle" before the first call, then "returned"
    root,                  \* path of the node handed to the last to_source
    result,                \* generator.result at the return of the last call
    generator,             \* the generator of the last call, as it was left
    text                   \* the text the last call returned

vars == <<tree, add_line_information, pp_attr, pc, root, result, generator,
          text>>

(***************************************************************************)
(* Bounds of the model.                                                    *)
(***************************************************************************)
MaxConst == 1      \* numeric constants range over -MaxConst..MaxConst
MaxElts == 2       \* tuples have 0..MaxElts elements
MaxArgs == 2       \* calls have 0..MaxArgs positional arguments
MaxRootDepth == 2  \* to_source is called on nodes this deep in the tree
MaxBody == 2       \* modules have 0..MaxBody statements
MaxFloat == 3      \* the finite floats are -MaxFloat.0 .. MaxFloat.0
MaxText == 2       \* literal texts have 0..MaxText characters
MaxValues == 2     \* joined literals have 0..MaxValues segments
MaxExtra == 2      \* newline is called with extra in 0..MaxExtra
MaxPosOnly == 1    \* functions have 0..MaxPosOnly positional-only parameters
MaxParams == 3     \* functions have 0..MaxParams other positional parameters
MaxSteps == 6      \* a handler driving the generator takes this many steps

(***************************************************************************)
(* op_util: the operator table.  Ranks go up in steps of two so that       *)
(* "rank + 1" falls strictly between two neighbouring ranks.               *)
(***************************************************************************)
Precedence ==
    [ GeneratorExp |-> 1, Assign |-> 3, Expr |-> 5, Yield |-> 7, If |-> 9,
      Return |-> 11, Subscript |-> 13, Index |-> 15,
      comprehension_target |-> 19, Tuple |-> 19, FormattedValue |-> 19,
      Comma |-> 21, NamedExpr |-> 23, call_one_arg |-> 25,
      Lambda |-> 27, IfExp |-> 27, comprehension |-> 29,
      Or |-> 31, And |-> 33, Not |-> 35,
      Eq |-> 37, Lt |-> 37, In |-> 37,
      BitOr |-> 39, Add |-> 47, Sub |-> 47, Mult |-> 49, Div |-> 49,
      PowRHS |-> 51, Invert |-> 53, UAdd |-> 53, USub |-> 53,
      Pow |-> 55, Await |-> 57, Num |-> 59, Constant |-> 61,
      highest |-> 63 ]

get_op_precedence(kind) == Precedence[kind]

symbol_data ==
    [ Or |-> "or", And |-> "and", Not |-> "not",
      Eq |-> "==", Lt |-> "<", In |-> "in",
      BitOr |-> "|", Add |-> "+", Sub |-> "-", Mult |-> "*", Div |-> "/",
      Invert |-> "~", UAdd |-> "+", USub |-> "-", Pow |-> "**" ]

\* get_op_symbol(op): the bare symbol, one fragment of one atom
get_op_symbol(op) == << symbol_data[op] >>

\* get_op_symbol(op, ' %s '): the symbol between two blanks
get_op_symbol_spaced(op) == << " ", symbol_data[op], " " >>

\* str.isalpha() on an operator symbol
isalpha(sym) == sym \in {"or", "and", "not", "in"}

(***************************************************************************)
(* Trees.                                                                  *)
(***************************************************************************)
\* The numeric values of Python.  A float is finite (an integral value n),
\* an infinity (n is its sign) or a NaN; an int is its value; a complex
\* number is two floats.
Finite(n)   == [cls |-> "finite", n |-> n]
Infinity(n) == [cls |-> "inf", n |-> n]
NaN         == [cls |-> "nan", n |-> 0]
int(n)          == [type |-> "int", real |-> Finite(n), imag |-> Finite(0)]
float(p)        == [type |-> "float", real |-> p, imag |-> Finite(0)]
complex(re, im) == [type |-> "complex", real |-> re, imag |-> im]

\* a node; num is the value of a numeric Constant (n, when it is an int)
Node(k, op, id, n, c, x) ==
    [k |-> k, op |-> op, id |-> id, n |-> n, c |-> c, x |-> x,
     num |-> int(n)]

Name(id)            == Node("Name", "", id, 0, <<>>, <<>>)
Constant(n)         == Node("Constant", "", "", n, <<>>, <<>>)
\* a Constant whose value is a float or a complex number
Num(value)          == [Constant(0) EXCEPT !.num = value]
BinOp(l, op, r)     == Node("BinOp", op, "", 0, <<l, r>>, <<>>)
BoolOp(op, values)  == Node("BoolOp", op, "", 0, values, <<>>)
UnaryOp(op, e)      == Node("UnaryOp", op, "", 0, <<e>>, <<>>)
\* ops is the list of comparison operators, one per comparator
Compare(l, ops, cs) == Node("Compare", ops[1], "", 0, <<l>> \o cs, ops)
\* fields in declaration order: test, body, orelse
IfExp(t, b, e)      == Node("IfExp", "", "", 0, <<t, b, e>>, <<>>)
NamedExpr(tg, v)    == Node("NamedExpr", "", "", 0, <<tg, v>>, <<>>)
Tuple(elts)         == Node("Tuple", "", "", 0, elts, <<>>)
Attribute(v, attr)  == Node("Attribute", "", attr, 0, <<v>>, <<>>)
Starred(v)          == Node("Starred", "", "", 0, <<v>>, <<>>)
Expr(v)             == Node("Expr", "", "", 0, <<v>>, <<>>)
Pass                == Node("Pass", "", "", 0, <<>>, <<>>)
Module(body)        == Node("Module", "", "", 0, body, <<>>)
\* a parameter, and the None that stands in kw_defaults for a keyword-only
\* parameter without default
arg(name)           == Node("arg", "", name, 0, <<>>, <<>>)
NoneNode            == Node("None", "", "", 0, <<>>, <<>>)
\* vararg and kwarg are <<>> (None) or one arg
arguments(posonlyargs, args, vararg, kwonlyargs, kw_defaults, kwarg, defaults) ==
    Node("arguments", "", "", 0,
         posonlyargs \o args \o vararg \o kwonlyargs \o kw_defaults \o kwarg
            \o defaults,
         [i \in DOMAIN posonlyargs |-> "posonlyarg"] \o [i \in DOMAIN args |-> "arg"]
            \o [i \in DOMAIN vararg |-> "vararg"]
            \o [i \in DOMAIN kwonlyargs |-> "kwonlyarg"]
            \o [i \in DOMAIN kw_defaults |-> "kw_default"]
            \o [i \in DOMAIN kwarg |-> "kwarg"]
            \o [i \in DOMAIN defaults |-> "default"])
FunctionDef(name, args, body_) ==
    Node("FunctionDef", "", name, 0, << args >> \o body_,
         << "args" >> \o [i \in DOMAIN body_ |-> "body"])
\* Strings: s is the sequence of the characters.  Str is a node that is an
\* instance of ast.Str (every string Constant is one from Python 3.8 on);
\* StrConstant is a string Constant that is not (Python 3.6 and 3.7).
Str(s)              == Node("Str", "", "", 0, <<>>, s)
StrConstant(s)      == Node("Constant", "str", "", 0, <<>>, s)
JoinedStr(values)   == Node("JoinedStr", "", "", 0, values, <<>>)
\* conversion is -1 or a character code; format_spec is <<>> (None) or one
\* JoinedStr; expr_text is "" when the node has no such attribute
FormattedValue(value, expr_text, conversion, format_spec) ==
    Node("FormattedValue", "", expr_text, conversion, << value >> \o format_spec,
         <<>>)
\* a call: the callee, then the arguments, each with its role: "arg" (an
\* element of args), "kw" (the value of a keyword k=...), "kwsplat" (the value
\* of a keyword whose arg is None), "starargs", "kwargs" (the legacy fields)
Call(func, roles, values) ==
    Node("Call", "", "", 0, <<func>> \o values, <<"func">> \o roles)
\* c = <<elt>> \o generators
GeneratorExp(elt, generators) ==
    Node("GeneratorExp", "", "", 0, <<elt>> \o generators, <<>>)
\* c = <<target, iter>> \o ifs
comprehension(target, iter, ifs) ==
    Node("comprehension", "", "", 0, <<target, iter>> \o ifs, <<>>)
\* c = decorator_list \o bases \o body
ClassDef(name, decorator_list, bases, body_) ==
    Node("ClassDef", "", name, 0, decorator_list \o bases \o body_,
         [i \in 1..Len(decorator_list) |-> "decorator"]
            \o [i \in 1..Len(bases) |-> "base"]
            \o [i \in 1..Len(body_) |-> "body"])

RECURSIVE At(_, _)
\* the node of t at path
At(t, path) ==
    IF path = <<>> THEN t ELSE At(t.c[Head(path)], Tail(path))

RECURSIVE Paths(_)
\* the paths of all nodes of t
Paths(t) ==
    {<<>>} \cup UNION { { <<i>> \o p : p \in Paths(t.c[i]) } : i \in DOMAIN t.c }

\* the paths of the children of the node at path, in order
ChildPaths(t, path) == [i \in DOMAIN At(t, path).c |-> path \o <<i>>]

Range(f) == { f[i] : i \in DOMAIN f }
Max(a, b) == IF a >= b THEN a ELSE b
Min(a, b) == IF a <= b THEN a ELSE b
\* text * n
Rep(atom, n) == [i \in 1..n |-> atom]

RECURSIVE Flatten(_)
\* ''.join(fragments)
Flatten(frags) ==
    IF frags = <<>> THEN <<>> ELSE Head(frags) \o Flatten(Tail(frags))

(***************************************************************************)
(* The generator: SourceGenerator.__init__ and its write closure.          *)
(***************************************************************************)
indent_with == "    "

\* trace records every step of the generator: the step, its argument (a
\* position in result or a count), and result, new_lines and indentation
\* after it.  exc says that an exception is propagating.
SourceGenerator(pp, ali) ==
    [ result |-> <<>>, indentation |-> 0, new_lines |-> 0,
      colinfo |-> <<0, 0>>, pp |-> pp, add_line_information |-> ali,
      exc |-> FALSE, trace |-> <<>> ]

\* the step `op` with argument `value` has just been taken
record(g, op, value) ==
    [g EXCEPT !.trace = Append(@, [ op |-> op, arg |-> value,
                                    result |-> g.result,
                                    new_lines |-> g.new_lines,
                                    indentation |-> g.indentation ])]

\* write(item) for an item that is text: flush the pending newlines and the
\* indentation, then append the item unless it is empty
write(g, item) ==
    LET flushed ==
            IF g.new_lines # 0
            THEN record([g EXCEPT
                            !.result = @ \o << Rep("\n", g.new_lines),
                                               Rep(indent_with, g.indentation) >>,
                            !.colinfo = << Len(g.result) + 1, 0 >>,
                            !.new_lines = 0],
                        "flush", g.new_lines)
            ELSE g
        append(f) ==
            IF item # <<>>
            THEN record([f EXCEPT !.result = Append(@, item)],
                        "append", Len(f.result) + 1)
            ELSE f
    IN  IF g.exc THEN g ELSE append(flushed)

\* variant: the requests add up
newline_summed(g, has_node, extra) ==
    LET line(g1) ==
            IF has_node /\ g.add_line_information
            THEN record([write(g1, << "# line: ", "lineno" >>) EXCEPT
                            !.new_lines = 1],
                        "line", 0)
            ELSE g1
    IN  IF g.exc THEN g
        ELSE line(record([g EXCEPT !.new_lines = @ + 1 + extra], "newline", extra))

\* newline(node, extra); has_node says whether a node was passed
newline(g, has_node, extra) ==
    LET line(g1) ==
            IF has_node /\ g.add_line_information
            THEN record([write(g1, << "# line: ", "lineno" >>) EXCEPT
                            !.new_lines = 1],
                        "line", 0)
            ELSE g1
    IN  IF g.exc THEN g
        ELSE line(record([g EXCEPT !.new_lines = Max(@, 1 + extra)],
                         "newline", extra))

(***************************************************************************)
(* set_precedence and the get__pp getter made by __getattr__.              *)
(***************************************************************************)
RECURSIVE set_precedence(_, _, _)
\* node._pp = value for every node of the sequence `paths`
set_precedence(g, value, paths) ==
    IF paths = <<>> \/ g.exc THEN g
    ELSE set_precedence([g EXCEPT !.pp = (Head(paths) :> value) @@ @],
                        value, Tail(paths))

\* variant: a default below every precedence
get__pp_lowest(g, path) ==
    IF path \in DOMAIN g.pp THEN g.pp[path] ELSE 0

\* getattr(node, '_pp', Precedence.highest)
get__pp(g, path) ==
    IF path \in DOMAIN g.pp THEN g.pp[path] ELSE Precedence.highest

(***************************************************************************)
(* Delimit.                                                                *)
(***************************************************************************)
\* self.discard = p >= pp
Delimit_discard(p, pp) == p >= pp

\* Delimit(tree, node) and Delimit(tree, node, op): kind is type(op or node)
\* entered: the with statement was reached (no exception before it)
Delimit(g, kind, path) ==
    LET opened(g1, p, pp) ==
            [ g |-> IF g.exc THEN g ELSE record(g1, "open", Len(g1.result)),
              index |-> Len(g1.result), closing |-> << ")" >>,
              p |-> p, pp |-> pp, discard |-> Delimit_discard(p, pp),
              entered |-> ~g.exc ]
    IN  opened(write(g, << "(" >>), get_op_precedence(kind), get__pp(g, path))

\* Delimit(tree, delimiters): no node, the class attribute discard = False
Delimit_text(g, opening, closing) ==
    LET opened(g1) ==
            [ g |-> IF g.exc THEN g ELSE record(g1, "open", Len(g1.result)),
              index |-> Len(g1.result), closing |-> << closing >>,
              discard |-> FALSE, entered |-> ~g.exc ]
    IN  opened(write(g, << opening >>))

\* variant: the closing text appended also when the opening is discarded
Delimit_exit_always_closes(g, d) ==
    IF ~d.entered THEN g
    ELSE IF d.discard
    THEN record([g EXCEPT !.result = Append([@ EXCEPT ![d.index] = <<>>], d.closing)],
                "discard", d.index)
    ELSE record([g EXCEPT !.result = Append(@, d.closing)], "keep", d.index)

\* Delimit.__exit__ on the generator state reached inside the scope; it
\* runs also when an exception leaves the scope
Delimit_exit(g, d) ==
    IF ~d.entered THEN g
    ELSE IF d.discard
    THEN record([g EXCEPT !.result[d.index] = <<>>], "discard", d.index)
    ELSE record([g EXCEPT !.result = Append(@, d.closing)], "keep", d.index)

(***************************************************************************)
(* Handlers.  visit(g, t, path) is the generator state after visiting the  *)
(* node of t at path from state g.                                         *)
(***************************************************************************)
RECURSIVE visit(_, _, _)

RECURSIVE visit_each(_, _, _)
\* write(*nodes): visit the nodes at `paths` in order
visit_each(g, t, paths) ==
    IF paths = <<>> THEN g
    ELSE visit_each(visit(g, t, Head(paths)), t, Tail(paths))

\* the children of the node at path whose role is in R, in order
ChildrenWithRole(t, path, R) ==
    LET node == At(t, path)
    IN  [j \in 1..Cardinality({i \in DOMAIN node.c : node.x[i] \in R}) |->
            path \o << CHOOSE i \in DOMAIN node.c :
                          /\ node.x[i] \in R
                          /\ Cardinality({h \in 1..i : node.x[h] \in R}) = j >>]

\* repr() of an integer: a minus sign, when negative, then the digits
repr(n) == IF n < 0 THEN << "-", ToString(-n) >> ELSE << ToString(n) >>

\* repr() of a finite float of integral value, followed by s: the digits of
\* the value, a point and a zero
repr_float(n, s) ==
    IF n < 0 THEN << "-", ToString(-n) \o ".0" \o s >>
    ELSE << ToString(n) \o ".0" \o s >>

\* math.isinf, math.isnan (false of an int)
isinf(p) == p.cls = "inf"
isnan(p) == p.cls = "nan"

\* part(p, imaginary) of _handle_numeric_constant; is_int says that p is
\* an int and not a float
part(p, is_int, imaginary) ==
    LET s == IF imaginary THEN "j" ELSE ""
    IN  IF isinf(p)
        THEN IF p.n < 0 THEN << "-", "1e1000" \o s >> ELSE << "1e1000" \o s >>
        ELSE IF isnan(p)
        THEN << "(", "1e1000" \o s, "-", "1e1000" \o s, ")" >>
        ELSE IF is_int THEN repr(p.n) ELSE repr_float(p.n, s)

\* x == 0 for a float x
IsZero(p) == p.cls = "finite" /\ p.n = 0

\* variant: the sign written before every imaginary part
numeric_text_always_plus(x) ==
    LET real == part(x.real, x.type = "int", FALSE)
        imag == part(x.imag, FALSE, TRUE)
    IN  IF x.type = "complex"
        THEN IF IsZero(x.real) THEN imag
             ELSE IF IsZero(x.imag) THEN << "(" >> \o real \o << "+", "0j", ")" >>
             ELSE << "(" >> \o real \o << "+" >> \o imag \o << ")" >>
        ELSE real

\* the text _handle_numeric_constant writes for x
numeric_text(x) ==
    LET real == part(x.real, x.type = "int", FALSE)
        imag == part(x.imag, FALSE, TRUE)
    IN  IF x.type = "complex"
        THEN IF IsZero(x.real) THEN imag
             ELSE IF IsZero(x.imag) THEN << "(" >> \o real \o << "+", "0j", ")" >>
             ELSE << "(" >> \o real
                  \o (IF Head(imag) = "-" THEN <<>> ELSE << "+" >>)
                  \o imag \o << ")" >>
        ELSE real

RECURSIVE comma_list_items(_, _, _, _)
\* the loop of comma_list: write(', ' if idx else '', item)
comma_list_items(g, t, paths, idx) ==
    IF idx > Len(paths) THEN g
    ELSE comma_list_items(
            visit(write(g, IF idx > 1 THEN << ",", " " >> ELSE <<>>), t, paths[idx]),
            t, paths, idx + 1)

comma_list(g, t, paths, trailing) ==
    LET g1 == set_precedence(g, Precedence.Comma, paths)
        g2 == comma_list_items(g1, t, paths, 1)
    IN  write(g2, IF trailing THEN << "," >> ELSE <<>>)

\* body(statements)
body(g, t, paths) ==
    LET g1 == record([g EXCEPT !.indentation = @ + 1], "body", Len(paths))
        leave(g2) ==
            IF g2.exc THEN g2
            ELSE record([g2 EXCEPT !.indentation = @ - 1], "body_end", Len(paths))
    IN  IF g.exc THEN g ELSE leave(visit_each(g1, t, paths))

visit_Name(g, t, path) == write(g, << At(t, path).id >>)

_handle_numeric_constant(g, value) == write(g, numeric_text(value))

\* the string formatter on a text without quotes, backslashes or newlines:
\* the text between two quotes
pretty_string(mystr) == << "'" >> \o mystr \o << "'" >>

RECURSIVE double_braces(_)
\* s.replace('{', '{{').replace('}', '}}')
double_braces(s) ==
    IF s = <<>> THEN <<>>
    ELSE (IF Head(s) \in {"{", "}"} THEN << Head(s), Head(s) >> ELSE << Head(s) >>)
            \o double_braces(Tail(s))

\* the text recurse writes for an ast.Str and for an ast.Constant
Str_text(s) == double_braces(s)
Constant_text(s) == s

\* chr(conversion)
chr(n) == CASE n = 114 -> "r" [] n = 115 -> "s" [] n = 97 -> "a"

\* assert False, 'Invalid node %s inside JoinedStr': the exception propagates
raise(g) == [g EXCEPT !.exc = TRUE]

RECURSIVE recurse(_, _, _)

RECURSIVE recurse_values(_, _, _)
\* the loop of recurse over node.values
recurse_values(g, t, paths) ==
    IF paths = <<>> \/ g.exc THEN g
    ELSE LET value == At(t, Head(paths))
             expression(g0) ==
                IF value.id # ""
                THEN write(g0, << value.id >>)
                ELSE visit(set_precedence(g0, get_op_precedence("FormattedValue"),
                                          << Head(paths) \o <<1>> >>),
                           t, Head(paths) \o <<1>>)
             conversion(g1) ==
                IF value.n # -1 THEN write(g1, << "!", chr(value.n) >>) ELSE g1
             format_spec(g2) ==
                IF Len(value.c) > 1
                THEN recurse(write(g2, << ":" >>), t, Head(paths) \o <<2>>)
                ELSE g2
             braces(d) ==
                Delimit_exit(format_spec(conversion(expression(d.g))), d)
             done ==
                CASE value.k = "Str" -> write(g, Str_text(value.x))
                  [] value.k = "FormattedValue" ->
                        braces(Delimit_text(g, "{", "}"))
                  [] value.k = "Constant" /\ value.op = "str" ->
                        write(g, Constant_text(value.x))
                  [] OTHER -> raise(g)
         IN  recurse_values(done, t, Tail(paths))

\* recurse(node) of _handle_string_constant
recurse(g, t, path) == recurse_values(g, t, ChildPaths(t, path))

\* _handle_string_constant(node, value, is_joined); value is the text when
\* the literal is not joined
_handle_string_constant(g, t, path, value, is_joined) ==
    LET f_string(g1, g2, index) ==
            IF g2.exc THEN g2
            ELSE write(record([record(g2, "joined", index) EXCEPT
                                  !.result = SubSeq(@, 1, index),
                                  !.colinfo = g1.colinfo],
                              "del", index),
                       << "f" >> \o pretty_string(
                          Flatten(SubSeq(g2.result, index + 1, Len(g2.result)))))
        joined(g1, index) ==
            f_string(g1, write(recurse(record(g1, "join", index), t, path), <<>>),
                     index)
        literal(g1) ==
            IF ~is_joined THEN write(g1, pretty_string(value))
            ELSE joined(g1, Len(g1.result))
    IN  IF g.exc THEN g ELSE literal(write(g, <<>>))

visit_JoinedStr(g, t, path) == _handle_string_constant(g, t, path, <<>>, TRUE)

visit_Str(g, t, path) ==
    _handle_string_constant(g, t, path, At(t, path).x, FALSE)

visit_Constant(g, t, path) ==
    LET number(d) ==
            Delimit_exit(_handle_numeric_constant(d.g, At(t, path).num), d)
    IN  IF At(t, path).op = "str"
        THEN _handle_string_constant(g, t, path, At(t, path).x, FALSE)
        ELSE number(Delimit(g, "Constant", path))

visit_Attribute(g, t, path) ==
    write(write(visit(g, t, path \o <<1>>), << "." >>), << At(t, path).id >>)

visit_Starred(g, t, path) == visit(write(g, << "*" >>), t, path \o <<1>>)

\* variants: power treated like the other operators; the right operand
\* given the operator's own precedence
BinOp_left_pp_same(ispow, p) == p
BinOp_right_pp_same(ispow, p) == IF ispow THEN Precedence.PowRHS ELSE p

\* the required precedence visit_BinOp gives its left and its right operand
BinOp_left_pp(ispow, p) == IF ispow THEN Precedence.Pow + 1 ELSE p
BinOp_right_pp(ispow, p) == IF ispow THEN Precedence.PowRHS ELSE p + 1

visit_BinOp(g, t, path) ==
    LET op == At(t, path).op
        left == path \o <<1>>
        right == path \o <<2>>
        ispow == op = "Pow"
        operands(d) ==
            LET g1 == set_precedence(d.g, BinOp_left_pp(ispow, d.p), << left >>)
                g2 == set_precedence(g1, BinOp_right_pp(ispow, d.p), << right >>)
                g3 == visit(g2, t, left)
                g4 == write(g3, get_op_symbol_spaced(op))
                g5 == visit(g4, t, right)
            IN  Delimit_exit(g5, d)
    IN  operands(Delimit(g, op, path))

\* variant: the operands given the chain's own precedence
BoolOp_pp_same(p) == p

\* the required precedence visit_BoolOp gives every operand
BoolOp_pp(p) == p + 1

RECURSIVE BoolOp_items(_, _, _, _, _)
\* the loop of visit_BoolOp: write(idx and op or '', value)
BoolOp_items(g, t, paths, idx, op) ==
    IF idx > Len(paths) THEN g
    ELSE BoolOp_items(
            visit(write(g, IF idx > 1 THEN op ELSE <<>>), t, paths[idx]),
            t, paths, idx + 1, op)

visit_BoolOp(g, t, path) ==
    LET node == At(t, path)
        values == ChildPaths(t, path)
        operands(d) ==
            LET g1 == set_precedence(d.g, BoolOp_pp(d.p), values)
                g2 == BoolOp_items(g1, t, values, 1, get_op_symbol_spaced(node.op))
            IN  Delimit_exit(g2, d)
    IN  operands(Delimit(g, node.op, path))

RECURSIVE Compare_items(_, _, _, _)
\* the loop of visit_Compare over zip(ops, comparators)
Compare_items(g, t, path, idx) ==
    IF idx > Len(At(t, path).x) THEN g
    ELSE Compare_items(
            visit(write(g, get_op_symbol_spaced(At(t, path).x[idx])),
                  t, path \o << idx + 1 >>),
            t, path, idx + 1)

visit_Compare(g, t, path) ==
    LET node == At(t, path)
        operands(d) ==
            LET g1 == set_precedence(d.g, d.p + 1, ChildPaths(t, path))
                g2 == visit(g1, t, path \o <<1>>)
                g3 == Compare_items(g2, t, path, 1)
            IN  Delimit_exit(g3, d)
    IN  operands(Delimit(g, node.x[1], path))

\* variant: the computed decision is left as it is
NamedExpr_discard_computed(discard) == discard

\* delimiters.discard = False in visit_NamedExpr
NamedExpr_discard(discard) == FALSE

visit_NamedExpr(g, t, path) ==
    LET operands(d0) ==
            LET g1 == set_precedence(d0.g, d0.p, << path \o <<1>> >>)
                g2 == set_precedence(g1, d0.p + 1, << path \o <<2>> >>)
                d == [d0 EXCEPT !.discard = NamedExpr_discard(@)]
                g3 == visit(g2, t, path \o <<1>>)
                g4 == write(g3, << " ", ":=", " " >>)
                g5 == visit(g4, t, path \o <<2>>)
            IN  Delimit_exit(g5, d)
    IN  operands(Delimit(g, "NamedExpr", path))

\* the operand's required precedence in visit_UnaryOp
UnaryOp_pp(p) == p

visit_UnaryOp(g, t, path) ==
    LET op == At(t, path).op
        sym == get_op_symbol(op)
        operand(d) ==
            LET g1 == set_precedence(d.g, UnaryOp_pp(d.p), << path \o <<1>> >>)
                g2 == write(g1, sym)
                g3 == write(g2, IF isalpha(sym[1]) THEN << " " >> ELSE <<>>)
                g4 == visit(g3, t, path \o <<1>>)
            IN  Delimit_exit(g4, d)
    IN  operand(Delimit(g, op, path))

visit_IfExp(g, t, path) ==
    LET test == path \o <<1>>
        body_ == path \o <<2>>
        orelse == path \o <<3>>
        operands(d) ==
            LET g1 == set_precedence(d.g, d.p + 1, << body_, test >>)
                g2 == set_precedence(g1, d.p, << orelse >>)
                g3 == visit(g2, t, body_)
                g4 == visit(write(g3, << " ", "if", " " >>), t, test)
                g5 == visit(write(g4, << " ", "else", " " >>), t, orelse)
            IN  Delimit_exit(g5, d)
    IN  operands(Delimit(g, "IfExp", path))

\* variant: the computed decision is left as it is
Tuple_discard_computed(discard, elts) == discard

\* delimiters.discard = delimiters.discard and elts
Tuple_discard(discard, elts) == discard /\ elts # <<>>

visit_Tuple(g, t, path) ==
    LET elts == ChildPaths(t, path)
        elements(d0) ==
            Delimit_exit(comma_list(d0.g, t, elts, Len(elts) = 1),
                         [d0 EXCEPT !.discard = Tuple_discard(@, elts)])
    IN  elements(Delimit(g, "Tuple", path))

\* variant: two arguments still count as one
Call_precedence_late(numargs) ==
    IF numargs > 2 THEN Precedence.Comma ELSE Precedence.call_one_arg

\* p = Precedence.Comma if numargs > 1 else Precedence.call_one_arg
Call_precedence(numargs) ==
    IF numargs > 1 THEN Precedence.Comma ELSE Precedence.call_one_arg

\* what visit_Call writes between the comma and an argument of each role
Call_prefix(role) ==
    CASE role = "arg"      -> <<>>
      [] role = "kw"       -> << << "k" >>, << "=" >> >>
      [] role = "kwsplat"  -> << <<>>, << "**" >> >>
      [] role = "starargs" -> << << "*" >> >>
      [] role = "kwargs"   -> << << "**" >> >>

RECURSIVE write_each(_, _)
\* write(*texts)
write_each(g, texts) ==
    IF texts = <<>> THEN g ELSE write_each(write(g, Head(texts)), Tail(texts))

RECURSIVE Call_items(_, _, _, _, _)
\* write(write_comma, ..., value) for the arguments at `paths`; want_comma is
\* the state of the write_comma closure.  Gives the state and the closure.
Call_items(gw, t, path, paths, idx) ==
    IF idx > Len(paths) THEN gw
    ELSE LET g1 == IF gw.want_comma THEN write(gw.g, << ",", " " >>) ELSE gw.g
             role == At(t, path).x[paths[idx][Len(paths[idx])]]
             g2 == write_each(g1, Call_prefix(role))
         IN  Call_items([g |-> visit(g2, t, paths[idx]), want_comma |-> TRUE],
                        t, path, paths, idx + 1)

visit_Call(g, t, path) ==
    LET args == ChildrenWithRole(t, path, {"arg"})
        keywords == ChildrenWithRole(t, path, {"kw", "kwsplat"})
        starargs == ChildrenWithRole(t, path, {"starargs"})
        kwargs == ChildrenWithRole(t, path, {"kwargs"})
        numargs == Len(args) + Len(keywords) + Len(starargs) + Len(kwargs)
        g1 == set_precedence(g, Call_precedence(numargs), args)
        g2 == write(visit(g1, t, path \o <<1>>), << "(" >>)
        a == Call_items([g |-> g2, want_comma |-> FALSE], t, path, args, 1)
        b == Call_items([a EXCEPT !.g = set_precedence(@, Precedence.Comma,
                                                       keywords)],
                        t, path, keywords \o starargs \o kwargs, 1)
    IN  write(b.g, << ")" >>)

\* if delimiters.pp == Precedence.call_one_arg: delimiters.discard = True
GeneratorExp_discard(discard, pp) ==
    IF pp = Precedence.call_one_arg THEN TRUE ELSE discard

visit_GeneratorExp(g, t, path) ==
    LET parts(d0) ==
            Delimit_exit(visit_each(set_precedence(d0.g, Precedence.Comma,
                                                   << path \o <<1>> >>),
                                    t, ChildPaths(t, path)),
                         [d0 EXCEPT !.discard = GeneratorExp_discard(@, d0.pp)])
    IN  parts(Delimit(g, "GeneratorExp", path))

RECURSIVE comprehension_ifs(_, _, _)
comprehension_ifs(g, t, paths) ==
    IF paths = <<>> THEN g
    ELSE comprehension_ifs(visit(write(g, << " ", "if", " " >>), t, Head(paths)),
                           t, Tail(paths))

visit_comprehension(g, t, path) ==
    LET target == path \o <<1>>
        iter == path \o <<2>>
        ifs == Tail(Tail(ChildPaths(t, path)))
        g1 == set_precedence(g, Precedence.comprehension, << iter >> \o ifs)
        g2 == set_precedence(g1, Precedence.comprehension_target, << target >>)
        g3 == visit(write(g2, << " ", "for", " " >>), t, target)
        g4 == visit(write(g3, << " ", "in", " " >>), t, iter)
    IN  comprehension_ifs(g4, t, ifs)

\* Parameters

\* None in a list of defaults
None == << 0 >>

\* the bound of a slice: k counted from the end when negative, and clipped
slice_index(k, n) == IF k < 0 THEN Max(0, n + k) ELSE Min(k, n)
\* s[:k] and s[k:]
slice_to(s, k) == SubSeq(s, 1, slice_index(k, Len(s)))
slice_from(s, k) == SubSeq(s, slice_index(k, Len(s)) + 1, Len(s))

\* write_comma of visit_arguments on the generator and its want_comma
write_comma(gw) ==
    IF gw.want_comma THEN [gw EXCEPT !.g = write(@, << ",", " " >>)]
    ELSE [gw EXCEPT !.want_comma = TRUE]

visit_arg(g, t, path) == write(g, << At(t, path).id >>)

RECURSIVE loop_args_items(_, _, _, _, _)
\* the loop of loop_args over zip(args, padding + defaults):
\* write(write_comma, arg); conditional_write('=', default)
loop_args_items(gw, t, args, defaults, idx) ==
    IF idx > Min(Len(args), Len(defaults)) THEN gw
    ELSE LET conditional_write(g1) ==
                IF defaults[idx] # None
                THEN visit(write(g1, << "=" >>), t, defaults[idx])
                ELSE g1
             g2 == conditional_write(visit(write_comma(gw).g, t, args[idx]))
         IN  loop_args_items([g |-> g2, want_comma |-> TRUE], t, args, defaults,
                             idx + 1)

\* loop_args(args, defaults)
loop_args(gw, t, args, defaults) ==
    LET g1 == set_precedence(gw.g, Precedence.Comma,
                             SelectSeq(defaults, LAMBDA d : d # None))
        padding == [i \in 1..Max(0, Len(args) - Len(defaults)) |-> None]
    IN  loop_args_items([gw EXCEPT !.g = g1], t, args, padding \o defaults, 1)

\* the offset visit_arguments computes when there are positional-only
\* parameters
arguments_offset(defaults, args) == Len(defaults) - Len(args)

visit_arguments(g, t, path) ==
    LET posonlyargs == ChildrenWithRole(t, path, {"posonlyarg"})
        args == ChildrenWithRole(t, path, {"arg"})
        defaults == ChildrenWithRole(t, path, {"default"})
        vararg == ChildrenWithRole(t, path, {"vararg"})
        kwonlyargs == ChildrenWithRole(t, path, {"kwonlyarg"})
        kw == ChildrenWithRole(t, path, {"kw_default"})
        kw_defaults == [i \in DOMAIN kw |->
                          IF At(t, kw[i]).k = "None" THEN None ELSE kw[i]]
        kwarg == ChildrenWithRole(t, path, {"kwarg"})
        offset == IF posonlyargs # <<>> THEN arguments_offset(defaults, args) ELSE 0
        gw0 == [g |-> g, want_comma |-> FALSE]
        \* if posonlyargs: loop_args(...); write(write_comma, '/')
        positional_only(gw) ==
            IF posonlyargs # <<>>
            THEN [write_comma(loop_args(gw, t, posonlyargs,
                                        slice_to(defaults, offset)))
                    EXCEPT !.g = write(@, << "/" >>)]
            ELSE gw
        \* if node.vararg: write(write_comma, '*', node.vararg)
        star(gw) ==
            IF vararg # <<>>
            THEN [write_comma(gw) EXCEPT
                    !.g = visit(write(@, << "*" >>), t, vararg[1])]
            ELSE gw
        \* if kwonlyargs: a bare star unless there is a vararg, then the loop
        keyword_only(gw) ==
            IF kwonlyargs # <<>>
            THEN loop_args(IF vararg = <<>>
                           THEN [write_comma(gw) EXCEPT !.g = write(@, << "*" >>)]
                           ELSE gw,
                           t, kwonlyargs, kw_defaults)
            ELSE gw
        \* if node.kwarg: write(write_comma, '**', node.kwarg)
        double_star(gw) ==
            IF kwarg # <<>>
            THEN [write_comma(gw) EXCEPT
                    !.g = visit(write(@, << "**" >>), t, kwarg[1])]
            ELSE gw
    IN  double_star(
            keyword_only(
                star(loop_args(positional_only(gw0), t, args,
                               slice_from(defaults, offset))))).g

\* Statements

visit_Expr(g, t, path) ==
    LET g1 == set_precedence(g, Precedence.Expr, << path \o <<1>> >>)
    IN  visit(newline(g1, TRUE, 0), t, path \o <<1>>)

visit_Pass(g, t, path) == write(newline(g, TRUE, 0), << "pass" >>)

RECURSIVE decorators(_, _, _)
\* the loop of decorators(): statement(decorator, '@', decorator)
decorators(g, t, paths) ==
    IF paths = <<>> THEN g
    ELSE decorators(visit(write(newline(g, TRUE, 0), << "@" >>), t, Head(paths)),
                    t, Tail(paths))

RECURSIVE ClassDef_bases(_, _, _, _)
\* write(paren_or_comma, base) for every base
ClassDef_bases(g, t, paths, idx) ==
    IF idx > Len(paths) THEN g
    ELSE ClassDef_bases(
            visit(write(g, IF idx > 1 THEN << ",", " " >> ELSE << "(" >>), t, paths[idx]),
            t, paths, idx + 1)

visit_ClassDef(g, t, path) ==
    LET bases == ChildrenWithRole(t, path, {"base"})
        g1 == decorators(newline(g, FALSE, 2), t,
                         ChildrenWithRole(t, path, {"decorator"}))
        g2 == write(newline(g1, TRUE, 0), << "class", " ", At(t, path).id >>)
        g3 == ClassDef_bases(g2, t, bases, 1)
        g4 == write(g3, IF bases # <<>> THEN << ")", ":" >> ELSE << ":" >>)
        after(g5) == IF g5.indentation = 0 THEN newline(g5, FALSE, 2) ELSE g5
    IN  after(body(g4, t, ChildrenWithRole(t, path, {"body"})))

visit_FunctionDef(g, t, path) ==
    LET g1 == newline(g, FALSE, IF g.indentation # 0 THEN 1 ELSE 2)
        g2 == write_each(newline(g1, TRUE, 0),
                         << << "def", " ", At(t, path).id >>, << "(" >> >>)
        g3 == visit_arguments(g2, t, path \o <<1>>)
        g4 == write(write(g3, << ")" >>), << ":" >>)
        after(g5) == IF g5.indentation = 0 THEN newline(g5, FALSE, 2) ELSE g5
    IN  after(body(g4, t, ChildrenWithRole(t, path, {"body"})))

visit_Module(g, t, path) == visit_each(g, t, ChildPaths(t, path))

\* ExplicitNodeVisitor.visit: the handler of the node's kind
visit(g, t, path) ==
    LET k == At(t, path).k
    IN  IF g.exc THEN g ELSE
        CASE k = "Name"          -> visit_Name(g, t, path)
          [] k = "Constant"      -> visit_Constant(g, t, path)
          [] k = "Attribute"     -> visit_Attribute(g, t, path)
          [] k = "Starred"       -> visit_Starred(g, t, path)
          [] k = "BinOp"         -> visit_BinOp(g, t, path)
          [] k = "BoolOp"        -> visit_BoolOp(g, t, path)
          [] k = "Compare"       -> visit_Compare(g, t, path)
          [] k = "NamedExpr"     -> visit_NamedExpr(g, t, path)
          [] k = "UnaryOp"       -> visit_UnaryOp(g, t, path)
          [] k = "IfExp"         -> visit_IfExp(g, t, path)
          [] k = "Tuple"         -> visit_Tuple(g, t, path)
          [] k = "Call"          -> visit_Call(g, t, path)
          [] k = "GeneratorExp"  -> visit_GeneratorExp(g, t, path)
          [] k = "comprehension" -> visit_comprehension(g, t, path)
          [] k = "Expr"          -> visit_Expr(g, t, path)
          [] k = "Pass"          -> visit_Pass(g, t, path)
          [] k = "ClassDef"      -> visit_ClassDef(g, t, path)
          [] k = "Module"        -> visit_Module(g, t, path)
          [] k = "JoinedStr"     -> visit_JoinedStr(g, t, path)
          [] k = "Str"           -> visit_Str(g, t, path)
          [] k = "arg"           -> visit_arg(g, t, path)
          [] k = "arguments"     -> visit_arguments(g, t, path)
          [] k = "FunctionDef"   -> visit_FunctionDef(g, t, path)
          [] OTHER               -> raise(g)

(***************************************************************************)
(* to_source.                                                              *)
(***************************************************************************)
\* the line formatter, taken as the concatenation of the fragments
pretty_source(fragments) == Flatten(fragments)

\* variant: the first fragment emptied whatever it holds
to_source_finish_always_strips(g) ==
    LET g1 == record([g EXCEPT !.result = Append(@, << "\n" >>)],
                     "end", Len(g.result) + 1)
    IN  record([g1 EXCEPT !.result[1] = <<>>], "strip", 1)

\* generator.result.append('\n'), then the first fragment is emptied when it
\* holds newlines only
to_source_finish(g) ==
    LET g1 == record([g EXCEPT !.result = Append(@, << "\n" >>)],
                     "end", Len(g.result) + 1)
    IN  IF Range(g1.result[1]) = {"\n"}
        THEN record([g1 EXCEPT !.result[1] = <<>>], "strip", 1)
        ELSE g1

\* to_source(node, add_line_information=ali) with the nodes' _pp attributes
\* as they are at the call: the generator at the end, whether the call
\* raised, the final generator.result, the text returned (none when the
\* call raised) and the attributes left on the nodes
to_source(t, path, ali, pp) ==
    LET finish(g0) == IF g0.exc THEN g0 ELSE to_source_finish(g0)
        outcome(g) ==
            [ generator |-> g, raised |-> g.exc, result |-> g.result,
              text |-> IF g.exc THEN <<>> ELSE pretty_source(g.result),
              pp |-> g.pp ]
    IN  outcome(finish(visit(SourceGenerator(pp, ali), t, path)))

(***************************************************************************)
(* The inputs.                                                             *)
(***************************************************************************)
\* the sequences over S of length lo..hi
SeqsOf(S, lo, hi) == UNION { [1..n -> S] : n \in lo..hi }

Leaves ==
    { Name("a") } \cup { Constant(n) : n \in 1..MaxConst }
      \cup { Constant(-n) : n \in 1..MaxConst }

BinOps == { "Add", "Sub", "Mult", "Pow" }
UnaryOps == { "USub", "Not" }
BoolOps == { "And", "Or" }

\* one binary operator over names
SimpleBinOps == { BinOp(Name("a"), op, Name("b")) : op \in BinOps }

\* one operator over names
Simple ==
    SimpleBinOps
      \cup { UnaryOp(op, Name("a")) : op \in UnaryOps }
      \cup { BoolOp(op, << Name("a"), Name("b") >>) : op \in BoolOps }
      \cup { Compare(Name("a"), << "Lt" >>, << Name("b") >>),
             IfExp(Name("a"), Name("b"), Name("c")),
             NamedExpr(Name("a"), Name("b")) }

Operands ==
    Leaves \cup Simple
      \cup { UnaryOp("USub", BinOp(Name("a"), op, Name("b"))) : op \in {"Add", "Pow"} }

\* the expressions: one operator with one operand of any shape, or a binary
\* operator with two operands that are leaves or binary operations
Expressions ==
    { BinOp(l, op, r) : l \in Leaves \cup SimpleBinOps, op \in BinOps,
                        r \in Leaves \cup SimpleBinOps }
      \cup { BinOp(e, op, Name("c")) : e \in Operands, op \in BinOps }
      \cup { BinOp(Name("c"), op, e) : e \in Operands, op \in BinOps }
      \cup { UnaryOp(op, e) : op \in UnaryOps, e \in Operands }
      \cup { BoolOp(op, << e, Name("c") >>) : op \in BoolOps, e \in Operands }
      \cup { BoolOp(op, << Name("c"), e >>) : op \in BoolOps, e \in Operands }
      \cup { BoolOp(op, << Name("c"), e, Name("d") >>) : op \in BoolOps, e \in Operands }
      \cup { Compare(e, << "Lt" >>, << Name("c") >>) : e \in Operands }
      \cup { Compare(Name("c"), << "Lt", "Eq" >>, << e, Name("d") >>) : e \in Operands }
      \cup { IfExp(e, Name("c"), Name("d")) : e \in Operands }
      \cup { IfExp(Name("c"), e, Name("d")) : e \in Operands }
      \cup { IfExp(Name("c"), Name("d"), e) : e \in Operands }
      \cup { Attribute(e, "f") : e \in Operands }
      \cup Operands

\* 1+2*3, (1+2)*3, 2**3**4, (2**3)**4, a-(b-c), (a-b)-c
Tree_1_plus_2_times_3 ==
    BinOp(Constant(1), "Add", BinOp(Constant(2), "Mult", Constant(3)))
Tree_1_plus_2_all_times_3 ==
    BinOp(BinOp(Constant(1), "Add", Constant(2)), "Mult", Constant(3))
Tree_2_pow_3_pow_4 ==
    BinOp(Constant(2), "Pow", BinOp(Constant(3), "Pow", Constant(4)))
Tree_2_pow_3_all_pow_4 ==
    BinOp(BinOp(Constant(2), "Pow", Constant(3)), "Pow", Constant(4))
Tree_a_minus_b_minus_c_right ==
    BinOp(Name("a"), "Sub", BinOp(Name("b"), "Sub", Name("c")))
Tree_a_minus_b_minus_c_left ==
    BinOp(BinOp(Name("a"), "Sub", Name("b")), "Sub", Name("c"))

Examples ==
    { Tree_1_plus_2_times_3, Tree_1_plus_2_all_times_3, Tree_2_pow_3_pow_4,
      Tree_2_pow_3_all_pow_4, Tree_a_minus_b_minus_c_right,
      Tree_a_minus_b_minus_c_left }

ExprStatements == { Expr(e) : e \in Expressions \cup Examples }

\* Tuples, in the places a tuple can stand
TupleElts == { Name("a"), Constant(1) }
Tuples == { Tuple(elts) : elts \in SeqsOf(TupleElts, 0, MaxElts) }
TupleContexts ==
    { "Statement", "Element", "Operand", "Attribute", "Argument", "Negated" }

InContext(k, e) ==
    CASE k = "Statement" -> Expr(e)
      [] k = "Element"   -> Expr(Tuple(<< e, Name("z") >>))
      [] k = "Operand"   -> Expr(BinOp(e, "Add", Name("z")))
      [] k = "Attribute" -> Expr(Attribute(e, "f"))
      [] k = "Argument"  -> Expr(Call(Name("f"), << "arg" >>, << e >>))
      [] k = "Negated"   -> Expr(UnaryOp("Not", e))

TupleStatements == { InContext(k, e) : k \in TupleContexts, e \in Tuples }

\* Calls f(...) whose arguments are the name a or the generator expression
\* (x for x in y)
GenExp ==
    GeneratorExp(Name("x"), << comprehension(Name("x"), Name("y"), <<>>) >>)
ArgValues == { Name("a"), GenExp }

\* the arguments after the positional ones: <<role, value>> pairs
OtherArguments ==
    { <<>>,
      << << "kw", Name("a") >> >>,
      << << "kw", GenExp >> >>,
      << << "kwsplat", Name("a") >> >>,
      << << "kwsplat", GenExp >> >>,
      << << "starargs", Name("a") >> >>,
      << << "starargs", GenExp >> >>,
      << << "kwargs", Name("a") >> >>,
      << << "kw", Name("a") >>, << "kwsplat", Name("a") >> >>,
      << << "kw", GenExp >>, << "starargs", Name("a") >>, << "kwargs", Name("a") >> >> }

Calls ==
    { Call(Name("f"),
           [i \in DOMAIN pos |-> "arg"] \o [i \in DOMAIN others |-> others[i][1]],
           pos \o [i \in DOMAIN others |-> others[i][2]]) :
        pos \in SeqsOf(ArgValues, 0, MaxArgs), others \in OtherArguments }

CallStatements == { Expr(e) : e \in Calls }

\* Modules of simple statements and class definitions; the joined literal
\* with a Name among its values is one that recurse rejects
Statements ==
    { Pass, Expr(Name("a")),
      ClassDef("C", <<>>, <<>>, << Pass >>),
      ClassDef("C", <<>>, <<>>, << Expr(JoinedStr(<< Name("a") >>)), Pass >>),
      ClassDef("C", << Name("d") >>, << Name("B") >>, << Pass >>),
      ClassDef("C", <<>>, <<>>, << ClassDef("D", <<>>, <<>>, << Pass >>) >>) }

Modules == { Module(stmts) : stmts \in SeqsOf(Statements, 0, MaxBody) }

\* Functions: the j-th default is the constant j, the i-th positional
\* parameter is named p<i>; after them nothing, *v, a keyword-only k with
\* its default, or *v, a keyword-only k without default and **w
OtherParameters ==
    { << <<>>, <<>>, <<>>, <<>> >>,
      << << arg("v") >>, <<>>, <<>>, <<>> >>,
      << <<>>, << arg("k") >>, << Constant(9) >>, <<>> >>,
      << << arg("v") >>, << arg("k") >>, << NoneNode >>, << arg("w") >> >> }

Parameters(lo, hi) == [i \in 1..(hi - lo) |-> arg("p" \o ToString(lo + i))]

FunctionDefs ==
    { FunctionDef("f",
                  arguments(Parameters(0, np), Parameters(np, np + na),
                            other[1], other[2], other[3], other[4],
                            [j \in 1..nd |-> Constant(j)]),
                  << Pass >>) :
        np \in 0..MaxPosOnly, na \in 0..MaxParams,
        nd \in 0..(MaxPosOnly + MaxParams), other \in OtherParameters }

FunctionStatements ==
    { f \in FunctionDefs :
        Len(SelectSeq(f.c[1].x, LAMBDA r : r = "default"))
            <= Len(SelectSeq(f.c[1].x, LAMBDA r : r \in {"posonlyarg", "arg"})) }

\* Numeric constants: every int, float and complex value, as a statement
\* and as the value of an attribute access
Floats == { Finite(n) : n \in (0 - MaxFloat)..MaxFloat }
              \cup { Infinity(1), Infinity(-1), NaN }

Numbers ==
    { int(n) : n \in (0 - MaxConst)..MaxConst }
        \cup { float(p) : p \in Floats }
        \cup { complex(re, im) : re \in Floats, im \in Floats }

\* Joined literals: literal texts over a letter and the two braces, carried
\* by either kind of node, and formatted values with and without a
\* conversion, a format specification, a source text, an operation or a
\* joined literal as value; a Name is no valid segment
Texts == SeqsOf({"x", "{", "}"}, 0, MaxText)

Literals == { Str(s) : s \in Texts } \cup { StrConstant(s) : s \in Texts }

Specifications ==
    { <<>> } \cup { << JoinedStr(<< v >>) >> :
                      v \in { Str(<< "{" >>), StrConstant(<< "}" >>),
                              FormattedValue(Name("b"), "", -1, <<>>) } }

FormattedValues ==
    { FormattedValue(Name("a"), "", cv, fs) :
        cv \in {-1, 114}, fs \in Specifications }
      \cup { FormattedValue(v, "", -1, <<>>) :
                v \in { BinOp(Name("a"), "Add", Name("b")),
                        JoinedStr(<< Str(<< "{" >>) >>) } }
      \cup { FormattedValue(Name("a"), "a=", -1, <<>>) }

Segments == Literals \cup FormattedValues \cup { Name("a") }

\* the segments that joined literals of several segments are made of
SomeSegments ==
    { Str(<< "{" >>), StrConstant(<< "x" >>),
      FormattedValue(Name("a"), "", -1, <<>>), Name("a") }

\* joined literals as operands
JoinedOperands ==
    LET sum == BinOp(Name("a"), "Add", Name("b"))
        joined == { JoinedStr(<< Str(<< "x" >>), FormattedValue(e, "", -1, <<>>) >>) :
                      e \in { sum, BinOp(sum, "Mult", Name("c")) } }
    IN  { BinOp(j, "Add", Name("a")) : j \in joined }
          \cup { BinOp(BinOp(j, "Add", Name("a")), "Mult", Name("b")) : j \in joined }
          \cup { Attribute(j, "f") : j \in joined }

JoinedStatements ==
    { Expr(JoinedStr(<< v >>)) : v \in Segments }
      \cup { Expr(JoinedStr(values)) : values \in SeqsOf(SomeSegments, 0, MaxValues) }
      \cup { Expr(e) : e \in JoinedOperands }

NumberStatements ==
    { Expr(Num(x)) : x \in Numbers }
        \cup { Expr(Attribute(Num(x), "f")) : x \in Numbers }

(***************************************************************************)
(* The state machine: the caller builds a tree, then calls to_source any   *)
(* number of times, each time on the tree or on one of its nodes.          *)
(***************************************************************************)
NoAttributes == [path \in {} |-> 0]

InitWith(trees, flags) ==
    /\ tree \in trees
    /\ add_line_information \in flags
    /\ pp_attr = NoAttributes
    /\ pc = "idle"
    /\ root = <<>>
    /\ result = <<>>
    /\ generator = SourceGenerator(NoAttributes, FALSE)
    /\ text = <<>>

ToSource(path) ==
    LET outcome(r) ==
            /\ pc' = IF r.raised THEN "raised" ELSE "returned"
            /\ root' = path
            /\ result' = r.result
            /\ generator' = r.generator
            /\ text' = r.text
            /\ pp_attr' = r.pp
            /\ UNCHANGED << tree, add_line_information >>
    IN  outcome(to_source(tree, path, add_line_information, pp_attr))

\* the nodes the caller hands to to_source
Roots(t) == { path \in Paths(t) : Len(path) <= MaxRootDepth }

Next == \E path \in Roots(tree) : ToSource(path)

Init == InitWith(ExprStatements, {FALSE})

Spec == Init /\ [][Next]_vars

\* the same machine on tuples, on calls and on modules
InitTuple == InitWith(TupleStatements, {FALSE})
SpecTuple == InitTuple /\ [][Next]_vars

InitCall == InitWith(CallStatements, {FALSE})
SpecCall == InitCall /\ [][Next]_vars

InitModule == InitWith(Modules, BOOLEAN)
SpecModule == InitModule /\ [][Next]_vars

\* A handler drives the generator step by step: it requests newlines,
\* writes tokens (the empty one too), enters and leaves a body, and at the
\* end to_source takes its final steps.
Generating == pc \in {"idle", "generating"} /\ Len(generator.trace) < MaxSteps

Step(g) ==
    /\ generator' = g
    /\ pc' = "generating"
    /\ UNCHANGED << tree, add_line_information, pp_attr, root, result, text >>

RequestNewline(extra) == Generating /\ Step(newline(generator, FALSE, extra))

WriteToken(token) == Generating /\ Step(write(generator, token))

EnterBody ==
    /\ Generating
    /\ Step(record([generator EXCEPT !.indentation = @ + 1], "body", 0))

LeaveBody ==
    /\ Generating
    /\ generator.indentation > 0
    /\ Step(record([generator EXCEPT !.indentation = @ - 1], "body_end", 0))

Finish ==
    LET outcome(g) ==
            /\ pc \in {"idle", "generating"}
            /\ generator' = g
            /\ result' = g.result
            /\ text' = pretty_source(g.result)
            /\ pc' = "returned"
            /\ UNCHANGED << tree, add_line_information, pp_attr, root >>
    IN  outcome(to_source_finish(generator))

NextStep ==
    \/ \E extra \in 0..MaxExtra : RequestNewline(extra)
    \/ \E token \in { <<>>, << "x" >> } : WriteToken(token)
    \/ EnterBody
    \/ LeaveBody
    \/ Finish

InitStep == InitWith({ Module(<<>>) }, {FALSE})
SpecStep == InitStep /\ [][NextStep]_vars

InitFunction == InitWith(FunctionStatements, {FALSE})
SpecFunction == InitFunction /\ [][Next]_vars

InitJoined == InitWith(JoinedStatements, {FALSE})
SpecJoined == InitJoined /\ [][Next]_vars

InitNumber == InitWith(NumberStatements, {FALSE})
SpecNumber == InitNumber /\ [][Next]_vars

(***************************************************************************)
(* Vocabulary of the properties.                                           *)
(***************************************************************************)
\* a call of to_source on the whole tree has returned
ReturnedWhole == pc = "returned" /\ root = <<>>

\* the text of a name or of a numeric constant
LeafText(node) ==
    IF node.k = "Name" THEN << node.id >>
    ELSE IF node.n < 0 THEN << "-", ToString(-node.n) >> ELSE << ToString(node.n) >>

IsLeaf(node) == node.k \in {"Name", "Constant"}

\* a binary operation on two leaves
IsLeafBinOp(node) ==
    node.k = "BinOp" /\ IsLeaf(node.c[1]) /\ IsLeaf(node.c[2])

Spaced(sym) == << " ", sym, " " >>

LeafBinOpText(node) ==
    LeafText(node.c[1]) \o Spaced(symbol_data[node.op]) \o LeafText(node.c[2])

Parenthesized(txt, yes) == IF yes THEN << "(" >> \o txt \o << ")" >> ELSE txt

\* the text of an operand that is a leaf or a binary operation on leaves,
\* the latter in parentheses when `wrapped`
OperandText(node, wrapped) ==
    IF IsLeaf(node) THEN LeafText(node)
    ELSE Parenthesized(LeafBinOpText(node), wrapped)

Line(txt) == txt \o << "\n" >>

\* 'x op y' as atoms
Atoms3(x, sym, y) == << x, " ", sym, " ", y >>

(***************************************************************************)
(* The reference parser: Python's expression grammar over the atoms of a   *)
(* text, blanks and newlines dropped.                                      *)
(*   test       ::= or_test ['if' or_test 'else' test]                     *)
(*   or_test    ::= and_test ('or' and_test)*                              *)
(*   and_test   ::= not_test ('and' not_test)*                             *)
(*   not_test   ::= 'not' not_test | comparison                            *)
(*   comparison ::= arith (('<' | '==') arith)*                            *)
(*   arith      ::= term (('+' | '-') term)*                               *)
(*   term       ::= factor ('*' factor)*                                   *)
(*   factor     ::= ('+' | '-') factor | power                             *)
(*   power      ::= atom ['**' factor]                                     *)
(*   atom       ::= NAME | NUMBER | '(' test ')'                           *)
(* A parse is [t |-> the tree, i |-> the index of the next token]; a       *)
(* syntax error has i = 0.                                                 *)
(***************************************************************************)
IsBlank(atom) == atom \in {" ", "\n"}
Tokens(txt) == SelectSeq(txt, LAMBDA atom : ~IsBlank(atom))

Tok(toks, i) == IF i \in 1..Len(toks) THEN toks[i] ELSE "<end>"

NameTokens == {"a", "b", "c", "d"}
IsNumberToken(tk) == \E n \in 0..9 : ToString(n) = tk
NumberValue(tk) == CHOOSE n \in 0..9 : ToString(n) = tk

SyntaxError == [t |-> Node("SyntaxError", "", "", 0, <<>>, <<>>), i |-> 0]

RECURSIVE parse_test(_, _)
RECURSIVE parse_factor(_, _)
RECURSIVE parse_not_test(_, _)

parse_atom(toks, i) ==
    LET tk == Tok(toks, i)
    IN  IF tk = "("
        THEN LET r == parse_test(toks, i + 1)
             IN  IF Tok(toks, r.i) = ")" THEN [r EXCEPT !.i = @ + 1]
                 ELSE SyntaxError
        ELSE IF IsNumberToken(tk) THEN [t |-> Constant(NumberValue(tk)), i |-> i + 1]
        ELSE IF tk \in NameTokens THEN [t |-> Name(tk), i |-> i + 1]
        ELSE SyntaxError

parse_power(toks, i) ==
    LET a == parse_atom(toks, i)
    IN  IF Tok(toks, a.i) = "**"
        THEN LET f == parse_factor(toks, a.i + 1)
             IN  [t |-> BinOp(a.t, "Pow", f.t), i |-> f.i]
        ELSE a

parse_factor(toks, i) ==
    LET tk == Tok(toks, i)
    IN  IF tk \in {"+", "-"}
        THEN LET f == parse_factor(toks, i + 1)
             IN  [t |-> UnaryOp(IF tk = "-" THEN "USub" ELSE "UAdd", f.t), i |-> f.i]
        ELSE parse_power(toks, i)

RECURSIVE term_rest(_, _)
term_rest(toks, left) ==
    IF Tok(toks, left.i) = "*"
    THEN LET f == parse_factor(toks, left.i + 1)
         IN  term_rest(toks, [t |-> BinOp(left.t, "Mult", f.t), i |-> f.i])
    ELSE left

parse_term(toks, i) == term_rest(toks, parse_factor(toks, i))

RECURSIVE arith_rest(_, _)
arith_rest(toks, left) ==
    LET tk == Tok(toks, left.i)
    IN  IF tk \in {"+", "-"}
        THEN LET r == parse_term(toks, left.i + 1)
             IN  arith_rest(toks,
                    [t |-> BinOp(left.t, IF tk = "+" THEN "Add" ELSE "Sub", r.t),
                     i |-> r.i])
        ELSE left

parse_arith(toks, i) == arith_rest(toks, parse_term(toks, i))

RECURSIVE comparison_rest(_, _, _, _)
\* the operators and comparators that follow the first operand
comparison_rest(toks, i, ops, cs) ==
    LET tk == Tok(toks, i)
    IN  IF tk \in {"<", "=="}
        THEN LET r == parse_arith(toks, i + 1)
             IN  comparison_rest(toks, r.i,
                    Append(ops, IF tk = "<" THEN "Lt" ELSE "Eq"), Append(cs, r.t))
        ELSE [ops |-> ops, cs |-> cs, i |-> i]

parse_comparison(toks, i) ==
    LET left == parse_arith(toks, i)
        rest == comparison_rest(toks, left.i, <<>>, <<>>)
    IN  IF rest.ops = <<>> THEN left
        ELSE [t |-> Compare(left.t, rest.ops, rest.cs), i |-> rest.i]

parse_not_test(toks, i) ==
    IF Tok(toks, i) = "not"
    THEN LET r == parse_not_test(toks, i + 1)
         IN  [t |-> UnaryOp("Not", r.t), i |-> r.i]
    ELSE parse_comparison(toks, i)

RECURSIVE and_rest(_, _, _)
\* the operands of an `and` chain after those already in values
and_rest(toks, i, values) ==
    IF Tok(toks, i) = "and"
    THEN LET r == parse_not_test(toks, i + 1)
         IN  and_rest(toks, r.i, Append(values, r.t))
    ELSE [values |-> values, i |-> i]

parse_and_test(toks, i) ==
    LET first == parse_not_test(toks, i)
        rest == and_rest(toks, first.i, << first.t >>)
    IN  IF Len(rest.values) = 1 THEN first
        ELSE [t |-> BoolOp("And", rest.values), i |-> rest.i]

RECURSIVE or_rest(_, _, _)
or_rest(toks, i, values) ==
    IF Tok(toks, i) = "or"
    THEN LET r == parse_and_test(toks, i + 1)
         IN  or_rest(toks, r.i, Append(values, r.t))
    ELSE [values |-> values, i |-> i]

parse_or_test(toks, i) ==
    LET first == parse_and_test(toks, i)
        rest == or_rest(toks, first.i, << first.t >>)
    IN  IF Len(rest.values) = 1 THEN first
        ELSE [t |-> BoolOp("Or", rest.values), i |-> rest.i]

parse_test(toks, i) ==
    LET b == parse_or_test(toks, i)
    IN  IF Tok(toks, b.i) = "if"
        THEN LET c == parse_or_test(toks, b.i + 1)
             IN  IF Tok(toks, c.i) = "else"
                 THEN LET e == parse_test(toks, c.i + 1)
                      IN  [t |-> IfExp(c.t, b.t, e.t), i |-> e.i]
                 ELSE SyntaxError
        ELSE b

\* the tree of a text that is one expression
Parse(txt) ==
    LET toks == Tokens(txt)
        r == parse_test(toks, 1)
    IN  IF r.i = Len(toks) + 1 THEN r.t ELSE SyntaxError.t

RECURSIVE Grouping(_)
\* the tree with every negative constant -n read as the negation of n, as
\* the parser reads it: the tree that evaluates like the given one
Grouping(node) ==
    IF node.k = "Constant" /\ node.n < 0
    THEN UnaryOp("USub", Constant(-node.n))
    ELSE [node EXCEPT !.c = [i \in DOMAIN node.c |-> Grouping(node.c[i])]]

\* the nodes of a tree
NodesOf(t) == { At(t, path) : path \in Paths(t) }

(***************************************************************************)
(* C1: round trip.  For an expression statement whose expression is built  *)
(* from names, numeric constants, unary, binary, boolean, comparison and   *)
(* conditional operators, parsing the text to_source returns gives a tree  *)
(* with the grouping of the input tree.                                    *)
(***************************************************************************)
C1_Kinds == { "Name", "Constant", "UnaryOp", "BinOp", "BoolOp", "Compare", "IfExp" }

C1_Case ==
    /\ ReturnedWhole
    /\ \A node \in NodesOf(tree.c[1]) : node.k \in C1_Kinds

C1_RoundTrip ==
    C1_Case => Parse(text) = Grouping(tree.c[1])

\* the same, for trees whose numeric constants are not negative
C1_RoundTripNonNegative ==
    (C1_Case /\ \A node \in NodesOf(tree.c[1]) : node.n >= 0)
        => Parse(text) = Grouping(tree.c[1])

(***************************************************************************)
(* C2: a binary operation other than power, of precedence p, gives its     *)
(* left operand the required precedence p and its right operand p + 1; an   *)
(* operand that is a binary operation of precedence q is parenthesized     *)
(* exactly when q < p on the left, q <= p on the right.  As expression     *)
(* statements, 1+2*3 is `1 + 2 * 3`, (1+2)*3 is `(1 + 2) * 3`, a-(b-c)      *)
(* keeps its parentheses and (a-b)-c has none.                             *)
(***************************************************************************)
C2_Case ==
    /\ ReturnedWhole
    /\ tree.c[1].k = "BinOp" /\ tree.c[1].op # "Pow"
    /\ \A i \in 1..2 : IsLeaf(tree.c[1].c[i]) \/ IsLeafBinOp(tree.c[1].c[i])

C2_Rule ==
    C2_Case =>
        LET e == tree.c[1]
            p == Precedence[e.op]
            q(i) == Precedence[e.c[i].op]
        IN  /\ pp_attr[<<1, 1>>] = p
            /\ pp_attr[<<1, 2>>] = p + 1
            /\ text = Line(OperandText(e.c[1], q(1) < p)
                             \o Spaced(symbol_data[e.op])
                             \o OperandText(e.c[2], q(2) <= p))

C2_Examples ==
    ReturnedWhole =>
        /\ tree = Expr(Tree_1_plus_2_times_3) =>
              text = Line(Atoms3("1", "+", "2") \o Spaced("*") \o << "3" >>)
        /\ tree = Expr(Tree_1_plus_2_all_times_3) =>
              text = Line(<< "(" >> \o Atoms3("1", "+", "2") \o << ")" >>
                            \o Spaced("*") \o << "3" >>)
        /\ tree = Expr(Tree_a_minus_b_minus_c_right) =>
              text = Line(<< "a" >> \o Spaced("-") \o << "(" >>
                            \o Atoms3("b", "-", "c") \o << ")" >>)
        /\ tree = Expr(Tree_a_minus_b_minus_c_left) =>
              text = Line(Atoms3("a", "-", "b") \o Spaced("-") \o << "c" >>)

C2_BinOpParentheses == C2_Rule /\ C2_Examples

\* a-(b-c) has been rendered
C2_Witness ==
    /\ C2_Case
    /\ tree = Expr(Tree_a_minus_b_minus_c_right)
    /\ "(" \in Range(text)

(***************************************************************************)
(* C3: a power gives its left operand the required precedence Pow + 1 and  *)
(* its right operand PowRHS: a power that is the right operand of a power  *)
(* is never parenthesized, one that is the left operand always is.         *)
(* 2**3**4 is `2 ** 3 ** 4` and (2**3)**4 is `(2 ** 3) ** 4`.               *)
(***************************************************************************)
IsLeafPow(node) == IsLeafBinOp(node) /\ node.op = "Pow"

C3_Case ==
    /\ ReturnedWhole
    /\ tree.c[1].k = "BinOp" /\ tree.c[1].op = "Pow"
    /\ \A i \in 1..2 : IsLeaf(tree.c[1].c[i]) \/ IsLeafPow(tree.c[1].c[i])

C3_Rule ==
    C3_Case =>
        LET e == tree.c[1]
        IN  /\ pp_attr[<<1, 1>>] = Precedence.Pow + 1
            /\ pp_attr[<<1, 2>>] = Precedence.PowRHS
            /\ text = Line(OperandText(e.c[1], TRUE) \o Spaced("**")
                             \o OperandText(e.c[2], FALSE))

C3_Examples ==
    ReturnedWhole =>
        /\ tree = Expr(Tree_2_pow_3_pow_4) =>
              text = Line(<< "2" >> \o Spaced("**") \o Atoms3("3", "**", "4"))
        /\ tree = Expr(Tree_2_pow_3_all_pow_4) =>
              text = Line(<< "(" >> \o Atoms3("2", "**", "3") \o << ")" >>
                            \o Spaced("**") \o << "4" >>)

C3_PowerRightAssociative == C3_Rule /\ C3_Examples

\* (a**b)**(a**b) has been rendered
C3_Witness ==
    /\ C3_Case
    /\ IsLeafPow(tree.c[1].c[1]) /\ IsLeafPow(tree.c[1].c[2])
    /\ Len(text) > 0

(***************************************************************************)
(* C4: a boolean chain of precedence p gives every operand the required    *)
(* precedence p + 1.  As stated, a chain that is an operand of a chain of   *)
(* the same kind is rendered without parentheses; an `or` chain under      *)
(* `and` is parenthesized and an `and` chain under `or` is not.            *)
(* As amended, a chain that is an operand of a chain of the same kind is   *)
(* parenthesized too: the nesting of the tree is kept.                     *)
(***************************************************************************)
RECURSIVE JoinWith(_, _)
\* sep.join(texts)
JoinWith(texts, sep) ==
    IF Len(texts) = 0 THEN <<>>
    ELSE IF Len(texts) = 1 THEN texts[1]
    ELSE texts[1] \o sep \o JoinWith(Tail(texts), sep)

\* a boolean chain over names
IsNameChain(node) ==
    node.k = "BoolOp" /\ \A i \in DOMAIN node.c : node.c[i].k = "Name"

NameChainText(node) ==
    JoinWith([i \in DOMAIN node.c |-> << node.c[i].id >>],
             Spaced(symbol_data[node.op]))

C4_Case ==
    /\ ReturnedWhole
    /\ tree.c[1].k = "BoolOp"
    /\ \A i \in DOMAIN tree.c[1].c :
          tree.c[1].c[i].k = "Name" \/ IsNameChain(tree.c[1].c[i])

\* the text of the chain when wrapped(child op) says which chains are
\* parenthesized
C4_Text(wrapped(_)) ==
    LET e == tree.c[1]
    IN  Line(JoinWith(
            [i \in DOMAIN e.c |->
                IF e.c[i].k = "Name" THEN << e.c[i].id >>
                ELSE Parenthesized(NameChainText(e.c[i]), wrapped(e.c[i].op))],
            Spaced(symbol_data[e.op])))

C4_OperandPrecedence ==
    \A i \in DOMAIN tree.c[1].c : pp_attr[<<1, i>>] = Precedence[tree.c[1].op] + 1

\* the claim as stated: only `or` under `and` is parenthesized
C4_SameKindFlattens ==
    C4_Case =>
        LET wrapped(op) == op = "Or" /\ tree.c[1].op = "And"
        IN  C4_OperandPrecedence /\ text = C4_Text(wrapped)

\* the claim as amended: every chain but `and` under `or` is parenthesized
C4_SameKindParenthesized ==
    C4_Case =>
        LET wrapped(op) == ~(op = "And" /\ tree.c[1].op = "Or")
        IN  C4_OperandPrecedence /\ text = C4_Text(wrapped)

\* a or (a or b) has been rendered, with its parentheses
C4_Witness ==
    /\ C4_Case
    /\ tree.c[1].op = "Or"
    /\ \E i \in DOMAIN tree.c[1].c :
          IsNameChain(tree.c[1].c[i]) /\ tree.c[1].c[i].op = "Or"
    /\ "(" \in Range(text)

(***************************************************************************)
(* C5: a delimiter scope is opened for a node to which no parent has       *)
(* propagated a required precedence (the value of an attribute access, the *)
(* root handed to to_source).  As stated, the default makes the discard    *)
(* flag true for every node kind, so the parentheses are erased.  As       *)
(* amended, the default is Precedence.highest, which no node's own         *)
(* precedence reaches: the discard flag is false and the parentheses stay. *)
(***************************************************************************)
DelimitedKinds ==
    { "Constant", "BinOp", "BoolOp", "Compare", "UnaryOp", "IfExp", "NamedExpr" }

\* to_source has returned for a root that never had a _pp attribute
C5_RootCase ==
    /\ pc = "returned"
    /\ root \notin DOMAIN pp_attr
    /\ At(tree, root).k \in DelimitedKinds

\* the value of an attribute access has been rendered
C5_AttributeCase ==
    /\ ReturnedWhole
    /\ tree.c[1].k = "Attribute"
    /\ tree.c[1].c[1].k \in DelimitedKinds

C5_DefaultDiscards ==
    /\ C5_RootCase => result[1] = <<>>
    /\ C5_AttributeCase => text[1] # "("

C5_DefaultKeeps ==
    /\ C5_RootCase =>
          /\ result[1] = << "(" >>
          /\ result[Len(result) - 1] = << ")" >>
    /\ C5_AttributeCase =>
          /\ <<1, 1>> \notin DOMAIN pp_attr
          /\ text[1] = "("
          /\ SubSeq(text, Len(text) - 3, Len(text)) = << ")", ".", "f", "\n" >>

\* a binary operation has been handed to to_source as the root
C5_Witness ==
    /\ C5_RootCase
    /\ At(tree, root).k = "BinOp"
    /\ result[1] = << "(" >>

(***************************************************************************)
(* C6: a tuple without elements renders as `()` wherever it stands; a      *)
(* tuple of one element renders with a comma after the element wherever it *)
(* stands, with or without parentheses; a tuple of two or more elements    *)
(* has no trailing comma, and none of its parentheses as the value of an   *)
(* expression statement.                                                   *)
(***************************************************************************)
\* the text of a tuple of leaves between its parentheses
TupleBody(e) ==
    JoinWith([i \in DOMAIN e.c |-> LeafText(e.c[i])], << ",", " " >>)
        \o (IF Len(e.c) = 1 THEN << "," >> ELSE <<>>)

ContextText(k, inner) ==
    CASE k = "Statement" -> Line(inner)
      [] k = "Element"   -> Line(inner \o << ",", " ", "z" >>)
      [] k = "Operand"   -> Line(inner \o Spaced("+") \o << "z" >>)
      [] k = "Attribute" -> Line(inner \o << ".", "f" >>)
      [] k = "Argument"  -> Line(<< "f", "(" >> \o inner \o << ")" >>)
      [] k = "Negated"   -> Line(<< "not", " " >> \o inner)

\* where the tuple stands in InContext(k, e)
TuplePath(k) ==
    IF k = "Statement" THEN <<1>>
    ELSE IF k = "Argument" THEN <<1, 2>> ELSE <<1, 1>>

C6_TupleEdgeCases ==
    \A k \in TupleContexts, e \in Tuples :
        (pc = "returned" /\ tree = InContext(k, e)
              /\ root \in { <<>>, TuplePath(k) }) =>
            \E parens \in BOOLEAN :
                /\ text = IF root = <<>>
                          THEN ContextText(k, Parenthesized(TupleBody(e), parens))
                          ELSE Line(Parenthesized(TupleBody(e), parens))
                /\ Len(e.c) = 0 => parens
                /\ (Len(e.c) >= 1 /\ k = "Statement" /\ root = <<>>) => ~parens

\* the empty tuple rendered as the value of an expression statement, where
\* its precedence is above the required one
C6_Witness ==
    /\ ReturnedWhole
    /\ tree = Expr(Tuple(<<>>))
    /\ pp_attr[<<1>>] <= Precedence.Tuple
    /\ text = << "(", ")", "\n" >>

(***************************************************************************)
(* C8: a generator expression that is an argument of a call is rendered    *)
(* without parentheses of its own exactly when it is a positional argument *)
(* and the call has one argument in all, counting positional, keyword,     *)
(* star and double-star arguments.                                         *)
(***************************************************************************)
GenExpText == << "x", " ", "for", " ", "x", " ", "in", " ", "y" >>

ArgumentPrefix(role) ==
    CASE role = "arg"      -> <<>>
      [] role = "kw"       -> << "k", "=" >>
      [] role = "kwsplat"  -> << "**" >>
      [] role = "starargs" -> << "*" >>
      [] role = "kwargs"   -> << "**" >>

C8_Case == ReturnedWhole /\ tree.c[1].k = "Call"

C8_GeneratorArgument ==
    C8_Case =>
        LET call == tree.c[1]
            numargs == Len(call.c) - 1
            item(i) ==
                ArgumentPrefix(call.x[i + 1])
                    \o (IF call.c[i + 1] = GenExp
                        THEN Parenthesized(GenExpText,
                                ~(call.x[i + 1] = "arg" /\ numargs = 1))
                        ELSE << "a" >>)
        IN  text = Line(<< "f", "(" >>
                          \o JoinWith([i \in 1..numargs |-> item(i)], << ",", " " >>)
                          \o << ")" >>)

\* f(x for x in y) has been rendered
C8_Witness ==
    /\ C8_Case
    /\ tree = Expr(Call(Name("f"), << "arg" >>, << GenExp >>))
    /\ text = Line(<< "f", "(" >> \o GenExpText \o << ")" >>)

(***************************************************************************)
(* C9: the text to_source returns ends with exactly one newline character  *)
(* and does not begin with a blank line, for every root and configuration. *)
(***************************************************************************)
EndsWithOneNewline(txt) ==
    /\ Len(txt) >= 1
    /\ txt[Len(txt)] = "\n"
    /\ Len(txt) >= 2 => txt[Len(txt) - 1] # "\n"

BeginsWithBlankLine(txt) == Len(txt) >= 1 /\ txt[1] = "\n"

C9_OneTrailingNewline ==
    pc = "returned" => EndsWithOneNewline(text) /\ ~BeginsWithBlankLine(text)

\* the same, for the calls whose visit appended a fragment
C9_OneTrailingNewlineNonEmpty ==
    (pc = "returned" /\ Len(result) >= 2) =>
        EndsWithOneNewline(text) /\ ~BeginsWithBlankLine(text)

(***************************************************************************)
(* C7: an assignment expression is rendered inside its own parentheses     *)
(* whatever required precedence its parent propagated, and when none was.  *)
(***************************************************************************)
IsPrefix(p, q) == Len(p) <= Len(q) /\ SubSeq(q, 1, Len(p)) = p

Contains(txt, sub) ==
    \E i \in 0..(Len(txt) - Len(sub)) : SubSeq(txt, i + 1, i + Len(sub)) = sub

\* the last call visited an assignment expression (a := b)
C7_Case(path) ==
    /\ pc = "returned"
    /\ At(tree, path) = NamedExpr(Name("a"), Name("b"))
    /\ IsPrefix(root, path)

C7_NamedExprParenthesized ==
    \A path \in Paths(tree) :
        C7_Case(path) =>
            Contains(text, << "(" >> \o Atoms3("a", ":=", "b") \o << ")" >>)

\* (a := b) rendered where the required precedence is below its own
C7_Witness ==
    /\ C7_Case(<<1>>)
    /\ root = <<>>
    /\ pp_attr[<<1>>] <= Precedence.NamedExpr

(***************************************************************************)
(* C10: the required precedence attached to a node in one generation does  *)
(* not persist: every call of to_source returns the text it returns for    *)
(* nodes that carry no _pp attribute.                                      *)
(***************************************************************************)
C10_NoPersistence ==
    pc = "returned" =>
        text = to_source(tree, root, add_line_information, NoAttributes).text

(***************************************************************************)
(* C11: the special numeric literals.  As stated: +inf renders `1e1000`,  *)
(* -inf `-1e1000`, NaN `(1e1000 - 1e1000)`, the complex value of real     *)
(* part 0 and imaginary part 3 `3j`, the complex value of real part 3 and *)
(* imaginary part 0 `(3+0j)`, and a complex value of two nonzero parts    *)
(* `(real+imag)`, without the `+` when the text of imag begins with `-`.  *)
(***************************************************************************)
\* the last call rendered the statement whose value is the number x
C11_Case(x) == ReturnedWhole /\ tree = Expr(Num(x))

\* the text returned for the statement whose value is x, without its newline
C11_Rendered(x) ==
    LET txt == to_source(Expr(Num(x)), <<>>, FALSE, NoAttributes).text
    IN  SubSeq(txt, 1, Len(txt) - 1)

\* `(real+imag)`: the texts of the two parts, each as it renders alone
C11_TwoParts ==
    \A re \in Floats, im \in Floats :
        (C11_Case(complex(re, im)) /\ ~IsZero(re) /\ ~IsZero(im)) =>
            LET real == C11_Rendered(float(re))
                imag == C11_Rendered(complex(Finite(0), im))
            IN  text = Line(<< "(" >> \o real
                            \o (IF Head(imag) = "-" THEN <<>> ELSE << "+" >>)
                            \o imag \o << ")" >>)

C11_Infinities ==
    /\ C11_Case(float(Infinity(1))) => text = Line(<< "1e1000" >>)
    /\ C11_Case(float(Infinity(-1))) => text = Line(<< "-", "1e1000" >>)

\* the claim as stated
C11_SpecialLiterals ==
    /\ C11_Infinities
    /\ C11_Case(float(NaN)) =>
          text = Line(<< "(", "1e1000", " ", "-", " ", "1e1000", ")" >>)
    /\ C11_Case(complex(Finite(0), Finite(3))) => text = Line(<< "3j" >>)
    /\ C11_Case(complex(Finite(3), Finite(0))) =>
          text = Line(<< "(", "3", "+", "0j", ")" >>)
    /\ C11_TwoParts

\* the claim as amended: NaN without blanks, the parts of a complex value
\* as floats
C11_SpecialLiteralsAsFloats ==
    /\ C11_Infinities
    /\ C11_Case(float(NaN)) =>
          text = Line(<< "(", "1e1000", "-", "1e1000", ")" >>)
    /\ C11_Case(complex(Finite(0), Finite(3))) => text = Line(<< "3.0j" >>)
    /\ C11_Case(complex(Finite(3), Finite(0))) =>
          text = Line(<< "(", "3.0", "+", "0j", ")" >>)
    /\ C11_TwoParts

\* a complex value of two nonzero parts, the imaginary one negative
C11_Witness ==
    /\ C11_Case(complex(Finite(3), Finite(-1)))
    /\ text = Line(<< "(", "3.0", "-", "1.0j", ")" >>)

(***************************************************************************)
(* C12: in the template assembled for a joined literal, every literal     *)
(* segment, of the literal and of its format specifications, carried by a *)
(* Str or by a Constant, has each of its braces doubled; the braces that  *)
(* are not doubled are those of the formatted values.                      *)
(***************************************************************************)
\* the last call rendered a statement whose value is a joined literal
C12_Case == ReturnedWhole /\ tree.c[1].k = "JoinedStr"

\* the template of the outermost joined literal: what the buffer held from
\* the literal's index on when it was joined for the last time
C12_Assembled ==
    LET tr == generator.trace
        last == CHOOSE i \in DOMAIN tr :
                    /\ tr[i].op = "joined"
                    /\ \A j \in DOMAIN tr : tr[j].op = "joined" => j <= i
    IN  Flatten(SubSeq(tr[last].result, tr[last].arg + 1, Len(tr[last].result)))

RECURSIVE C12_Doubled(_)
C12_Doubled(s) ==
    IF s = <<>> THEN <<>>
    ELSE IF Head(s) = "{" THEN << "{", "{" >> \o C12_Doubled(Tail(s))
    ELSE IF Head(s) = "}" THEN << "}", "}" >> \o C12_Doubled(Tail(s))
    ELSE << Head(s) >> \o C12_Doubled(Tail(s))

RECURSIVE C12_Template(_)
\* the template of a sequence of segments
C12_Template(values) ==
    IF values = <<>> THEN <<>>
    ELSE LET v == Head(values)
             e == v.c[1]
             expr == IF v.id # "" THEN << v.id >>
                     ELSE IF e.k = "Name" THEN << e.id >>
                     ELSE IF e.k = "BinOp"
                     THEN Atoms3(e.c[1].id, symbol_data[e.op], e.c[2].id)
                     ELSE << "f", "'" >> \o C12_Template(e.c) \o << "'" >>
             conversion == IF v.n = 114 THEN << "!", "r" >> ELSE <<>>
             specification ==
                 IF Len(v.c) > 1 THEN << ":" >> \o C12_Template(v.c[2].c) ELSE <<>>
         IN  (IF v.k = "FormattedValue"
              THEN << "{" >> \o expr \o conversion \o specification \o << "}" >>
              ELSE C12_Doubled(v.x))
             \o C12_Template(Tail(values))

\* the claim as stated
C12_BracesDoubled ==
    C12_Case => C12_Assembled = C12_Template(tree.c[1].c)

\* a literal segment carried by a Constant that is not an ast.Str and that
\* holds a brace
C12_ConstantWithBrace(node) ==
    node.k = "Constant" /\ node.op = "str" /\ Range(node.x) \cap {"{", "}"} # {}

\* the claim for the literals of which every brace is carried by an ast.Str
C12_BracesDoubledInStr ==
    (C12_Case /\ \A node \in NodesOf(tree) : ~C12_ConstantWithBrace(node)) =>
        C12_Assembled = C12_Template(tree.c[1].c)

(***************************************************************************)
(* C13: every delimiter scope, whatever is nested or written inside it    *)
(* (a flush of pending newlines when it opens, the truncation of a joined *)
(* literal), finds at its exit the opening text it wrote at its recorded  *)
(* index, and then either blanks that fragment and nothing else, without  *)
(* appending the closing text, or leaves it and appends the closing text  *)
(* after all that was written inside; inner scopes resolve before outer   *)
(* ones, so the parentheses of the text are balanced.                     *)
(***************************************************************************)
C13_Closing(opening) == IF opening = << "{" >> THEN << "}" >> ELSE << ")" >>

\* result before step i of the trace
C13_Before(tr, i) == IF i = 1 THEN <<>> ELSE tr[i - 1].result

RECURSIVE C13_Resolves(_, _, _)
\* the steps i.. of the trace resolve their scopes as stated; stack holds,
\* innermost last, the index and the opening text of the scopes still open
C13_Resolves(tr, i, stack) ==
    IF i > Len(tr) THEN stack = <<>>
    ELSE LET e == tr[i]
             before == C13_Before(tr, i)
             top == stack[Len(stack)]
             rest == SubSeq(stack, 1, Len(stack) - 1)
         IN  CASE e.op = "open" ->
                    /\ e.arg = Len(e.result)
                    /\ e.result[e.arg] \in { << "(" >>, << "{" >> }
                    /\ C13_Resolves(tr, i + 1,
                                    Append(stack, << e.arg, e.result[e.arg] >>))
               [] e.op = "discard" ->
                    /\ stack # <<>>
                    /\ top[1] = e.arg
                    /\ before[e.arg] = top[2]
                    /\ e.result = [before EXCEPT ![e.arg] = <<>>]
                    /\ C13_Resolves(tr, i + 1, rest)
               [] e.op = "keep" ->
                    /\ stack # <<>>
                    /\ top[1] = e.arg
                    /\ before[e.arg] = top[2]
                    /\ e.result = Append(before, C13_Closing(top[2]))
                    /\ C13_Resolves(tr, i + 1, rest)
               [] OTHER -> C13_Resolves(tr, i + 1, stack)

RECURSIVE C13_Depth(_, _)
\* the nesting depth after the text txt, begun at depth d; -1 when a
\* parenthesis closes that was not opened
C13_Depth(txt, d) ==
    IF txt = <<>> \/ d < 0 THEN d
    ELSE C13_Depth(Tail(txt), CASE Head(txt) = "(" -> d + 1
                                [] Head(txt) = ")" -> d - 1
                                [] OTHER -> d)

C13_ScopesResolve ==
    pc = "returned" =>
        /\ C13_Resolves(generator.trace, 1, <<>>)
        /\ C13_Depth(text, 0) = 0

\* a scope opened on a flush of pending newlines, with a joined literal
\* truncated inside it, that kept its delimiters inside one that did not
C13_Witness ==
    LET tr == generator.trace
    IN  /\ pc = "returned"
        /\ \E i, j, k, l \in DOMAIN tr :
              /\ i + 2 < j /\ j < k /\ k < l
              /\ tr[i].op = "flush" /\ tr[i + 2].op = "open"
              /\ tr[j].op = "del"
              /\ tr[k].op = "keep" /\ tr[k].arg > tr[i + 2].arg
              /\ tr[l].op = "discard" /\ tr[l].arg = tr[i + 2].arg

(***************************************************************************)
(* C14: the newline requests made without a line annotation since the     *)
(* last flush leave as pending count the greatest 1 + extra, not the sum; *)
(* the next write of a text appends that many newline characters, then    *)
(* the indentation unit `indentation` times, then the text, and leaves    *)
(* the count 0; a request that no write follows adds no newline to the    *)
(* output.                                                                 *)
(***************************************************************************)
\* the generator before step i of the trace
C14_Before(tr, i) ==
    IF i = 1 THEN [ result |-> <<>>, new_lines |-> 0, indentation |-> 0 ]
    ELSE [ result |-> tr[i - 1].result, new_lines |-> tr[i - 1].new_lines,
           indentation |-> tr[i - 1].indentation ]

RECURSIVE C14_Scheduled(_, _, _)
\* the steps i.. of the trace are as stated; pending is the greatest
\* 1 + extra requested since the last flush, 0 when nothing was
C14_Scheduled(tr, i, pending) ==
    IF i > Len(tr) THEN TRUE
    ELSE LET e == tr[i]
             before == C14_Before(tr, i)
         IN  CASE e.op = "newline" ->
                    /\ e.new_lines = Max(pending, 1 + e.arg)
                    /\ e.result = before.result
                    /\ C14_Scheduled(tr, i + 1, Max(pending, 1 + e.arg))
               [] e.op = "flush" ->
                    /\ pending > 0
                    /\ e.result = before.result
                                    \o << Rep("\n", pending),
                                          Rep(indent_with, before.indentation) >>
                    /\ e.new_lines = 0
                    /\ C14_Scheduled(tr, i + 1, 0)
               [] e.op = "append" ->
                    /\ pending = 0 /\ before.new_lines = 0
                    /\ Len(e.result) = Len(before.result) + 1
                    /\ SubSeq(e.result, 1, Len(before.result)) = before.result
                    /\ e.result[Len(e.result)] # <<>>
                    /\ C14_Scheduled(tr, i + 1, 0)
               [] e.op = "end" ->
                    /\ e.result = Append(before.result, << "\n" >>)
                    /\ C14_Scheduled(tr, i + 1, pending)
               [] OTHER ->
                    /\ e.new_lines = before.new_lines
                    /\ C14_Scheduled(tr, i + 1, pending)

\* the number of newline characters of a text
C14_Newlines(txt) == Cardinality({ i \in DOMAIN txt : txt[i] = "\n" })

\* the newline characters that the flushes of the trace appended
RECURSIVE C14_Flushed(_)
C14_Flushed(tr) ==
    IF tr = <<>> THEN 0
    ELSE (IF Head(tr).op = "flush" THEN Head(tr).arg ELSE 0) + C14_Flushed(Tail(tr))

C14_NewlinesCoalesce ==
    /\ ~add_line_information => C14_Scheduled(generator.trace, 1, 0)
    /\ (pc = "returned" /\ ~add_line_information) =>
          \/ C14_Newlines(text) = C14_Flushed(generator.trace) + 1
          \/ /\ generator.trace[Len(generator.trace)].op = "strip"
             /\ C14_Newlines(text)
                  + C14_Newlines(generator.trace[Len(generator.trace) - 1].result[1])
                   = C14_Flushed(generator.trace) + 1

\* requests of 1 + 2 and 1 + 0 newlines flushed as three by the write of a
\* text in a body, and a last request that no write followed
C14_Witness ==
    LET tr == generator.trace
    IN  /\ pc = "returned"
        /\ generator.new_lines > 0
        /\ \E i \in DOMAIN tr :
              /\ i + 3 \in DOMAIN tr
              /\ tr[i].op = "newline" /\ tr[i].arg = 2
              /\ tr[i + 1].op = "newline" /\ tr[i + 1].arg = 0
              /\ tr[i + 2].op = "flush" /\ tr[i + 2].arg = 3
              /\ tr[i + 2].indentation > 0
              /\ tr[i + 3].op = "append"

(***************************************************************************)
(* C15: body raises the indentation by one for the time of rendering its  *)
(* statements and restores it when it is left, whether rendering returns  *)
(* or a statement raises; the indentation is never negative, and it is 0  *)
(* when a generation ends.                                                 *)
(***************************************************************************)
\* the indentation before step i of the trace
C15_Before(tr, i) == IF i = 1 THEN 0 ELSE tr[i - 1].indentation

RECURSIVE C15_Scoped(_, _, _)
\* the steps i.. of the trace change the indentation as stated; stack
\* holds the indentation at the entry of the bodies not yet left
C15_Scoped(tr, i, stack) ==
    IF i > Len(tr) THEN TRUE
    ELSE LET e == tr[i]
             before == C15_Before(tr, i)
         IN  /\ e.indentation >= 0
             /\ CASE e.op = "body" ->
                      /\ e.indentation = before + 1
                      /\ C15_Scoped(tr, i + 1, Append(stack, before))
                  [] e.op = "body_end" ->
                      /\ stack # <<>>
                      /\ e.indentation = stack[Len(stack)]
                      /\ C15_Scoped(tr, i + 1, SubSeq(stack, 1, Len(stack) - 1))
                  [] OTHER ->
                      /\ e.indentation = before
                      /\ C15_Scoped(tr, i + 1, stack)

\* the claim as stated
C15_IndentationRestored ==
    /\ C15_Scoped(generator.trace, 1, <<>>)
    /\ pc \in {"returned", "raised"} => generator.indentation = 0

\* the claim for the generations that return
C15_IndentationRestoredOnReturn ==
    /\ C15_Scoped(generator.trace, 1, <<>>)
    /\ pc = "returned" => generator.indentation = 0

(***************************************************************************)
(* C16: the buffer is append-only.  As stated: in every step of a         *)
(* generation (writes, scopes, plain and joined string literals, the      *)
(* final steps of to_source) no fragment is removed, moved or changed,    *)
(* but for the opening fragment of a scope, blanked when the scope        *)
(* resolves; the length of the buffer never decreases.                    *)
(***************************************************************************)
\* result before step i of the trace
C16_Before(tr, i) == IF i = 1 THEN <<>> ELSE tr[i - 1].result

\* the step e blanked the opening fragment of its scope and nothing else
C16_Blanked(before, e) ==
    /\ e.arg \in DOMAIN before
    /\ e.result = [before EXCEPT ![e.arg] = <<>>]

\* the step appended to the buffer or left it as it was
C16_Appended(before, after) ==
    /\ Len(after) >= Len(before)
    /\ SubSeq(after, 1, Len(before)) = before

\* the claim as stated
C16_AppendOnly ==
    \A i \in DOMAIN generator.trace :
        LET e == generator.trace[i]
            before == C16_Before(generator.trace, i)
        IN  IF e.op = "discard" THEN C16_Blanked(before, e)
            ELSE C16_Appended(before, e.result)

RECURSIVE C16_Steps(_, _, _)
\* the steps i.. of the trace keep the buffer as amended; stack holds the
\* length of the buffer at the begin of the joined literals being assembled
C16_Steps(tr, i, stack) ==
    IF i > Len(tr) THEN TRUE
    ELSE LET e == tr[i]
             before == C16_Before(tr, i)
         IN  CASE e.op = "discard" ->
                    C16_Blanked(before, e) /\ C16_Steps(tr, i + 1, stack)
               [] e.op = "join" ->
                    /\ e.result = before
                    /\ C16_Steps(tr, i + 1, Append(stack, Len(before)))
               [] e.op = "del" ->
                    /\ stack # <<>>
                    /\ Len(before) >= stack[Len(stack)]
                    /\ e.result = SubSeq(before, 1, stack[Len(stack)])
                    /\ i < Len(tr) /\ tr[i + 1].op = "append"
                    /\ C16_Steps(tr, i + 1, SubSeq(stack, 1, Len(stack) - 1))
               [] e.op = "strip" ->
                    /\ i = Len(tr)
                    /\ Range(before[1]) = {"\n"}
                    /\ e.result = [before EXCEPT ![1] = <<>>]
               [] OTHER ->
                    C16_Appended(before, e.result) /\ C16_Steps(tr, i + 1, stack)

\* the claim as amended: a joined literal removes what it appended, and
\* to_source blanks a first fragment of newlines
C16_AppendOnlyButScratch == C16_Steps(generator.trace, 1, <<>>)

\* a generation that blanked an opening, truncated the fragments of a
\* joined literal and blanked the first fragment
C16_Witness ==
    LET tr == generator.trace
    IN  /\ pc = "returned"
        /\ \E i, j \in DOMAIN tr :
              /\ tr[i].op = "discard"
              /\ tr[j].op = "del" /\ Len(tr[j].result) < Len(tr[j - 1].result)
        /\ tr[Len(tr)].op = "strip"

(***************************************************************************)
(* C17: in a parameter list, with P the positional-only parameters        *)
(* followed by the other positional ones and D the defaults, for all      *)
(* their lengths with len(D) <= len(P), the j-th default is written as    *)
(* `=default` after P[len(P) - len(D) + j] and no other positional        *)
(* parameter has one; `/` is written once, right after the last           *)
(* positional-only parameter; consecutive items are separated by one      *)
(* `, `, with none before the first and none after the last.              *)
(***************************************************************************)
\* the last call rendered a function definition
C17_Case == ReturnedWhole /\ tree.k = "FunctionDef"

C17_Count(role) == Len(SelectSeq(tree.c[1].x, LAMBDA r : r = role))

\* the items of the parameter list, in order: the positional parameters
\* with their defaults, the `/` after the positional-only ones, and what
\* follows them
C17_Items ==
    LET np == C17_Count("posonlyarg")
        na == C17_Count("arg")
        nd == C17_Count("default")
        positional(i) ==
            << "p" \o ToString(i) >>
              \o (IF i > np + na - nd THEN << "=", ToString(i - (np + na - nd)) >>
                  ELSE <<>>)
        kwonly == IF tree.c[1].c[np + na + C17_Count("vararg") + 2].k = "None"
                  THEN << "k" >> ELSE << "k", "=", "9" >>
    IN  [i \in 1..np |-> positional(i)]
          \o (IF np > 0 THEN << << "/" >> >> ELSE <<>>)
          \o [i \in 1..na |-> positional(np + i)]
          \o (IF C17_Count("vararg") > 0 THEN << << "*", "v" >> >>
              ELSE IF C17_Count("kwonlyarg") > 0 THEN << << "*" >> >> ELSE <<>>)
          \o (IF C17_Count("kwonlyarg") > 0 THEN << kwonly >> ELSE <<>>)
          \o (IF C17_Count("kwarg") > 0 THEN << << "**", "w" >> >> ELSE <<>>)

\* the text of the definition whose parameter list is the items
C17_Text(items) ==
    << "def", " ", "f", "(" >> \o JoinWith(items, << ",", " " >>)
        \o << ")", ":", "\n", indent_with, "pass", "\n" >>

\* the claim as stated
C17_DefaultsAttached == C17_Case => text = C17_Text(C17_Items)

\* the definitions where visit_arguments splits the defaults where the
\* positional-only parameters end: none of these, or defaults for all the
\* other positional parameters, or for at most half of them
C17_SplitRight ==
    \/ C17_Count("posonlyarg") = 0
    \/ C17_Count("default") >= C17_Count("arg")
    \/ 2 * C17_Count("default") <= C17_Count("arg")

C17_DefaultsAttachedWhenSplitRight ==
    (C17_Case /\ C17_SplitRight) => text = C17_Text(C17_Items)

====
